---- MODULE Spec2Model ----
(***************************************************************************)
(* A model of dbms/src/Storages/StorageURL.cpp: the URL table engine.      *)
(*                                                                         *)
(* Strings the code inspects character by character (URLs, paths) are      *)
(* sequences of one-character strings; opaque names (format names,         *)
(* compression names, error codes, events) are TLA+ strings.               *)
(***************************************************************************)
EXTENDS Integers, Sequences, FiniteSets, TLC

VARIABLES
    storage,            \* "none" until StorageURL::create returned, then "created"
    args,               \* StorageFactory::Arguments of the last creation attempt
    create_error,       \* "unattempted", "none" or the error code thrown
    create_log,         \* what the last creation attempt evaluated and called
    uri,                \* IStorageURLBase::uri
    format_name,        \* IStorageURLBase::format_name
    compression_method, \* IStorageURLBase::compression_method
    columns,            \* IStorage columns: the declared defaults
    constraints,        \* IStorage constraints
    database_name,      \* IStorageURLBase::database_name
    table_name,         \* IStorageURLBase::table_name
    renaming,           \* a rename between its two assignments
    identities,         \* the identity pairs fully installed so far
    resource,           \* the bytes the remote endpoint holds
    committed,          \* the rows of the last finished write
    stream              \* the block stream of the current read or write call

vars == <<storage, args, create_error, create_log, uri, format_name,
          compression_method, columns, constraints, database_name, table_name,
          renaming, identities, resource, committed, stream>>

tableVars == <<storage, args, create_error, create_log, uri, format_name,
               compression_method, columns, constraints>>

identityVars == <<database_name, table_name, renaming, identities>>

----------------------------------------------------------------------------
(* Bounds *)

MaxArgs == 4

MaxRows == 2

----------------------------------------------------------------------------
(* Character strings *)

endsWith(s, suffix) ==
    /\ Len(s) >= Len(suffix)
    /\ SubSeq(s, Len(s) - Len(suffix) + 1, Len(s)) = suffix

\* std::string::find: the first index of ch at or after from, Len(s) + 1 if none
find(s, ch, from) ==
    IF \E i \in from..Len(s) : s[i] = ch
    THEN CHOOSE i \in from..Len(s) :
            s[i] = ch /\ \A j \in from..(i - 1) : s[j] # ch
    ELSE Len(s) + 1

Scheme == <<"h", "t", "t", "p", ":", "/", "/">>

DotGz == <<".", "g", "z">>

----------------------------------------------------------------------------
(* Poco::URI *)

NoURI == [host |-> <<>>, path |-> <<>>, query |-> <<>>]

\* Poco::URI::URI(const std::string &): scheme "://" host path [ "?" query ]
ParseURI(url) ==
    LET rest  == SubSeq(url, Len(Scheme) + 1, Len(url))
        slash == find(rest, "/", 1)
        qmark == find(rest, "?", 1)
        pend  == IF qmark < slash THEN slash ELSE qmark
    IN  [host  |-> SubSeq(rest, 1, (IF slash < qmark THEN slash ELSE qmark) - 1),
         path  |-> SubSeq(rest, slash, pend - 1),
         query |-> SubSeq(rest, qmark + 1, Len(rest))]

\* Poco::URI::toString
toString(u) ==
    Scheme \o u.host \o u.path
        \o (IF u.query = <<>> THEN <<>> ELSE <<"?">> \o u.query)

\* Poco::URI::getPath
getPath(u) == u.path

\* Poco::URI::addQueryParameter
addQueryParameter(u, param, value) ==
    [u EXCEPT !.query = (IF @ = <<>> THEN <<>> ELSE @ \o <<"&">>)
                            \o param \o <<"=">> \o value]

RECURSIVE addQueryParameters(_, _)
addQueryParameters(u, params) ==
    IF params = <<>> THEN u
    ELSE addQueryParameters(
            addQueryParameter(u, Head(params)[1], Head(params)[2]), Tail(params))

----------------------------------------------------------------------------
(* Inputs *)

Hosts == {<<"a">>, <<"x">>}

AllowedHosts == {<<"a">>}

Paths == {<<"/", "d">>, <<"/", "d">> \o DotGz}

Queries == {<<>>, <<"v", "=", "1">>}

URLStrings ==
    {toString([host |-> h, path |-> p, query |-> q]) :
        h \in Hosts, p \in Paths, q \in Queries}

Formats == {"CSV", "Bogus"}

RegisteredFormats == {"CSV"}

Overrides == {"auto", "gzip", "none"}

ArgChoices(i) ==
    IF i = 1 THEN URLStrings
    ELSE IF i = 2 THEN Formats
    ELSE IF i = 3 THEN Overrides
    ELSE {"extra"}

RECURSIVE ArgsOfLen(_)
ArgsOfLen(n) ==
    IF n = 0 THEN {<<>>}
    ELSE {Append(s, a) : s \in ArgsOfLen(n - 1), a \in ArgChoices(n)}

EngineArgs == UNION {ArgsOfLen(n) : n \in 0..MaxArgs}

AllColumns == {"C0", "C1"}

\* ColumnsDescription::getDefaults: pairs <<column, evaluated default>>
ColumnDefaultChoices == {{}, {<<"C1", 0>>}}

ColumnNameChoices == {{"C0", "C1"}, {"C0"}}

\* what an overriding getReadURIParams may return; the base returns {}
ParamChoices == {<<>>, << <<<<"k">>, DotGz>> >>}

OldIdentity == <<"db", "t">>

NewIdentities == {<<"db2", "t2">>}

\* rows as the engine pushes them: every column present
FullRows == {[c \in AllColumns |-> IF c = "C0" THEN 1 ELSE v] : v \in {0, 7}}

NoArgs == [engine_args |-> <<>>, columns |-> {}, constraints |-> "",
           database_name |-> "", table_name |-> ""]

----------------------------------------------------------------------------
(* Collaborators *)

\* RemoteHostFilter::checkURL: TRUE when it returns, FALSE when it throws
checkURL(u) == u.host \in AllowedHosts

\* IStorage::chooseCompressionMethod
chooseCompressionMethod(path, method) ==
    IF method = "auto"
    THEN (IF endsWith(path, DotGz) THEN "Gzip" ELSE "None")
    ELSE IF method = "gzip" THEN "Gzip" ELSE "None"

\* FormatFactory::getInput / getOutput: TRUE when the format is registered
formatKnown(format) == format \in RegisteredFormats

\* the codec and the compression streams, lossless: what is written is a
\* payload marked with its format, wrapped in a frame marked with its method
Encode(format, rows) == [fmt |-> format, rows |-> rows]

Compress(method, payload) == [comp |-> method, payload |-> payload]

Corrupt == [fmt |-> "corrupt", rows |-> <<>>]

Decompress(method, bytes) ==
    IF bytes.comp = method THEN bytes.payload ELSE Corrupt

\* [ok, rows]: the rows the codec yields, or a format error
Decode(format, payload) ==
    IF payload.fmt = format
    THEN [ok |-> TRUE, rows |-> payload.rows]
    ELSE [ok |-> FALSE, rows |-> <<>>]

\* AddingDefaultsBlockInputStream: a column the row lacks gets its default
addDefaults(row, column_defaults) ==
    LET filled == {p[1] : p \in {q \in column_defaults : q[1] \notin DOMAIN row}}
    IN  [c \in (DOMAIN row) \cup filled |->
            IF c \in DOMAIN row THEN row[c]
            ELSE (CHOOSE p \in column_defaults : p[1] = c)[2]]

\* getHeaderBlock(column_names): the codec yields the requested columns only
project(row, column_names) ==
    [c \in (DOMAIN row) \cap column_names |-> row[c]]

----------------------------------------------------------------------------
(* IStorageURLBase::IStorageURLBase *)

\* mutant: the constructor without its call of checkURL
IStorageURLBaseUnchecked(uri_, database_name_, table_name_, format_name_, columns_, constraints_, compression_method_) ==
    [error |-> "none", log |-> <<"setColumns", "setConstraints">>,
     members |-> [uri |-> uri_, compression_method |-> compression_method_,
                  format_name |-> format_name_, table_name |-> table_name_,
                  database_name |-> database_name_,
                  columns |-> columns_, constraints |-> constraints_]]

\* mutant: the constructor looking the format up in the factory
IStorageURLBaseEagerFormat(uri_, database_name_, table_name_, format_name_, columns_, constraints_, compression_method_) ==
    LET members == [uri |-> uri_, compression_method |-> compression_method_,
                    format_name |-> format_name_, table_name |-> table_name_,
                    database_name |-> database_name_,
                    columns |-> columns_, constraints |-> constraints_]
    IN  IF ~checkURL(uri_)
        THEN [error |-> "UNACCEPTABLE_URL", log |-> <<"checkURL">>,
              members |-> members]
        ELSE IF ~formatKnown(format_name_)
        THEN [error |-> "UNKNOWN_FORMAT", log |-> <<"checkURL">>,
              members |-> members]
        ELSE [error |-> "none",
              log |-> <<"checkURL", "setColumns", "setConstraints">>,
              members |-> members]

IStorageURLBase(uri_, database_name_, table_name_, format_name_, columns_, constraints_, compression_method_) ==
    LET members == [uri |-> uri_, compression_method |-> compression_method_,
                    format_name |-> format_name_, table_name |-> table_name_,
                    database_name |-> database_name_,
                    columns |-> columns_, constraints |-> constraints_]
    IN  IF ~checkURL(uri_)
        THEN [error |-> "UNACCEPTABLE_URL", log |-> <<"checkURL">>,
              members |-> members]
        ELSE [error |-> "none",
              log |-> <<"checkURL", "setColumns", "setConstraints">>,
              members |-> members]

----------------------------------------------------------------------------
(* registerStorageURL *)

\* mutant: only too few arguments are refused
ArityOkAtLeastTwo(engine_args) == Len(engine_args) >= 2

ArityOk(engine_args) == ~(Len(engine_args) # 2 /\ Len(engine_args) # 3)

CompressionArg(engine_args) ==
    IF Len(engine_args) = 3 THEN engine_args[3] ELSE "auto"

EvaluatedArgs(engine_args) ==
    <<"evaluate0", "Poco::URI", "evaluate1">>
        \o (IF Len(engine_args) = 3 THEN <<"evaluate2">> ELSE <<>>)

\* the creator function registered for "URL"
Creator(a) ==
    IF ~ArityOk(a.engine_args)
    THEN [error |-> "NUMBER_OF_ARGUMENTS_DOESNT_MATCH", log |-> <<>>,
          members |-> NoArgs]
    ELSE LET obj == IStorageURLBase(ParseURI(a.engine_args[1]),
                        a.database_name, a.table_name, a.engine_args[2],
                        a.columns, a.constraints,
                        CompressionArg(a.engine_args))
         IN  [obj EXCEPT !.log = EvaluatedArgs(a.engine_args) \o @]

registerStorageURL ==
    /\ storage = "none"
    /\ \E ea \in EngineArgs, cols \in ColumnDefaultChoices :
        LET a == [engine_args |-> ea, columns |-> cols, constraints |-> "chk",
                  database_name |-> OldIdentity[1],
                  table_name |-> OldIdentity[2]]
            r == Creator(a)
        IN  /\ args' = a
            /\ create_error' = r.error
            /\ create_log' = r.log
            /\ IF r.error = "none"
               THEN /\ storage' = "created"
                    /\ uri' = r.members.uri
                    /\ format_name' = r.members.format_name
                    /\ compression_method' = r.members.compression_method
                    /\ columns' = r.members.columns
                    /\ constraints' = r.members.constraints
                    /\ database_name' = r.members.database_name
                    /\ table_name' = r.members.table_name
                    /\ identities' = {<<r.members.database_name,
                                        r.members.table_name>>}
               ELSE UNCHANGED <<storage, uri, format_name, compression_method,
                                columns, constraints, database_name,
                                table_name, identities>>
    /\ UNCHANGED <<renaming, resource, committed, stream>>

----------------------------------------------------------------------------
(* IStorageURLBase::rename: two assignments, table_name first *)

NoRename == <<>>

rename_table_name ==
    /\ storage = "created"
    /\ renaming = NoRename
    /\ \E id \in NewIdentities :
        /\ table_name' = id[2]
        /\ renaming' = id
    /\ UNCHANGED <<database_name, identities>>
    /\ UNCHANGED <<tableVars, resource, committed, stream>>

rename_database_name ==
    /\ renaming # NoRename
    /\ database_name' = renaming[1]
    /\ identities' = identities \cup {renaming}
    /\ renaming' = NoRename
    /\ UNCHANGED table_name
    /\ UNCHANGED <<tableVars, resource, committed, stream>>

----------------------------------------------------------------------------
(* StorageURLBlockInputStream, StorageURLBlockOutputStream *)

NoStream ==
    [kind |-> "none", pc |-> "none", exit |-> "", err |-> "", log |-> <<>>,
     request_uri |-> NoURI, sel_arg |-> <<>>, compression |-> "None",
     column_names |-> {}, wrapped |-> FALSE, pos |-> 0, out |-> <<>>]

\* the stream slot is free: no call is in flight
Idle == stream.pc \in {"none", "destroyed"}

\* members are destroyed in reverse order of declaration:
\* reader after read_buf (lines 105-106), writer after write_buf (148-149)
InputMembers == <<"read_buf", "reader">>

OutputMembers == <<"write_buf", "writer">>

Reverse(s) == [i \in 1..Len(s) |-> s[Len(s) + 1 - i]]

DestroyEvent(member) ==
    IF member \in {"read_buf", "write_buf"} THEN "close_buf"
    ELSE "destroy_" \o member

\* mutant: the members destroyed in the order of their declaration
DestructorInDeclarationOrder(members) ==
    [i \in 1..Len(members) |-> DestroyEvent(members[i])]

\* ~StorageURLBlockInputStream / ~StorageURLBlockOutputStream
Destructor(members) ==
    LET order == Reverse(members)
    IN  [i \in 1..Len(order) |-> DestroyEvent(order[i])]

\* a constructor body that throws destroys the members already constructed
CtorUnwind(constructed) == Destructor(constructed)

\* the stream constructors (lines 63-75, 120-121): the buffer, then the codec
StreamCtor(kind, transport_ok, format) ==
    LET members == IF kind = "in" THEN InputMembers ELSE OutputMembers
        get     == IF kind = "in" THEN "getInput" ELSE "getOutput"
    IN  IF ~transport_ok
        THEN [pc |-> "destroyed", exit |-> "ctor", err |-> "TransportError",
              log |-> <<"open_buf:throw">>]
        ELSE IF ~formatKnown(format)
        THEN [pc |-> "destroyed", exit |-> "ctor", err |-> "UNKNOWN_FORMAT",
              log |-> <<"open_buf", get \o ":throw">>
                        \o CtorUnwind(SubSeq(members, 1, 1))]
        ELSE [pc |-> "open", exit |-> "", err |-> "",
              log |-> <<"open_buf", get>>]

----------------------------------------------------------------------------
(* IStorageURLBase::read *)

\* line 199: what read hands to chooseCompressionMethod
ReadSelectorArg(request_uri) == getPath(request_uri)

\* mutant: the parameters appended to the stored uri itself
UriAfterReadAppended(request_uri) == request_uri

\* line 185: request_uri is a copy; the stored uri stays as it is
UriAfterRead(request_uri) == uri

\* mutant: the wrapper added whether or not defaults are declared
ReadWrapsAlways(column_defaults) == TRUE

\* lines 201-204
ReadWraps(column_defaults) == ~(column_defaults = {})

read ==
    /\ storage = "created"
    /\ Idle
    /\ \E column_names \in ColumnNameChoices, params \in ParamChoices,
          transport_ok \in BOOLEAN :
        LET request_uri == addQueryParameters(uri, params)
            sel         == ReadSelectorArg(request_uri)
            method      == chooseCompressionMethod(sel, compression_method)
            ctor        == StreamCtor("in", transport_ok, format_name)
        IN  /\ stream' =
                [kind |-> "in", pc |-> ctor.pc, exit |-> ctor.exit,
                 err |-> ctor.err, log |-> ctor.log,
                 request_uri |-> request_uri, sel_arg |-> sel,
                 compression |-> method, column_names |-> column_names,
                 wrapped |-> (ctor.pc = "open" /\ ReadWraps(columns)),
                 pos |-> 0, out |-> <<>>]
            /\ uri' = UriAfterRead(request_uri)
    /\ UNCHANGED <<storage, args, create_error, create_log, format_name,
                   compression_method, columns, constraints>>
    /\ UNCHANGED <<identityVars, resource, committed>>

\* the rows the codec yields from the endpoint's bytes
Decoded == Decode(format_name, Decompress(stream.compression, resource))

\* the defaults of the columns in the header
HeaderDefaults == {p \in columns : p[1] \in stream.column_names}

\* StorageURLBlockInputStream::readImpl, through the wrapper if there is one
readImpl ==
    /\ stream.kind = "in"
    /\ stream.pc = "open"
    /\ IF ~Decoded.ok
       THEN stream' = [stream EXCEPT !.pc = "failed", !.err = "FormatError"]
       ELSE IF stream.pos < Len(Decoded.rows)
       THEN LET row == project(Decoded.rows[stream.pos + 1],
                               stream.column_names)
            IN  stream' = [stream EXCEPT
                    !.pos = @ + 1,
                    !.out = Append(@, IF stream.wrapped
                                      THEN addDefaults(row, HeaderDefaults)
                                      ELSE row)]
       ELSE stream' = [stream EXCEPT !.pc = "done"]
    /\ UNCHANGED <<tableVars, identityVars, resource, committed>>

----------------------------------------------------------------------------
(* IStorageURLBase::write *)

\* line 218: what write hands to chooseCompressionMethod
WriteSelectorArg(u) == toString(u)

write ==
    /\ storage = "created"
    /\ Idle
    /\ \E transport_ok \in BOOLEAN :
        LET sel    == WriteSelectorArg(uri)
            method == chooseCompressionMethod(sel, compression_method)
            ctor   == StreamCtor("out", transport_ok, format_name)
        IN  stream' =
                [kind |-> "out", pc |-> ctor.pc, exit |-> ctor.exit,
                 err |-> ctor.err, log |-> ctor.log,
                 request_uri |-> uri, sel_arg |-> sel,
                 compression |-> method, column_names |-> AllColumns,
                 wrapped |-> FALSE, pos |-> 0, out |-> <<>>]
    /\ UNCHANGED <<tableVars, identityVars, resource, committed>>

\* StorageURLBlockOutputStream::write(block)
writeBlock ==
    /\ stream.kind = "out"
    /\ stream.pc = "open"
    /\ Len(stream.out) < MaxRows
    /\ \E row \in FullRows :
        stream' = [stream EXCEPT !.out = Append(@, row)]
    /\ UNCHANGED <<tableVars, identityVars, resource, committed>>

\* mutant: the byte stream finalized before the codec's suffix and flush
WriteSuffixCallsFinalizeFirst ==
    <<"write_buf.finalize", "writer.writeSuffix", "writer.flush">>

\* lines 141-143, in the order the code makes the calls
WriteSuffixCalls == <<"writer.writeSuffix", "writer.flush", "write_buf.finalize">>

\* the calls made when call number fail_at throws (0: none throws)
CallsMade(calls, fail_at) ==
    IF fail_at = 0 THEN calls
    ELSE SubSeq(calls, 1, fail_at - 1) \o <<calls[fail_at] \o ":throw">>

\* StorageURLBlockOutputStream::writeSuffix
writeSuffix ==
    /\ stream.kind = "out"
    /\ stream.pc = "open"
    /\ \E fail_at \in 0..Len(WriteSuffixCalls) :
        /\ stream' = [stream EXCEPT
                !.log = @ \o CallsMade(WriteSuffixCalls, fail_at),
                !.pc = IF fail_at = 0 THEN "finished" ELSE "failed",
                !.err = IF fail_at = 0 THEN "" ELSE "WriteError"]
        /\ IF fail_at = 0
           THEN /\ resource' = Compress(stream.compression,
                                        Encode(format_name, stream.out))
                /\ committed' = [done |-> TRUE, rows |-> stream.out]
           ELSE UNCHANGED <<resource, committed>>
    /\ UNCHANGED <<tableVars, identityVars>>

\* the caller drops the stream: after the last row, after an error, or
\* in the middle of the sequence
destroy ==
    /\ stream.pc \in {"open", "done", "failed", "finished"}
    /\ stream' = [stream EXCEPT
            !.pc = "destroyed",
            !.exit = IF stream.pc = "open" THEN "abandoned" ELSE stream.pc,
            !.log = @ \o Destructor(IF stream.kind = "in" THEN InputMembers
                                    ELSE OutputMembers)]
    /\ UNCHANGED <<tableVars, identityVars, resource, committed>>

----------------------------------------------------------------------------
(* The endpoint's first content: two rows, the first without column C1 *)

ServedRows ==
    <<[c \in {"C0"} |-> 1], [c \in AllColumns |-> IF c = "C0" THEN 1 ELSE 7]>>

InitialResources ==
    {Compress(m, Encode("CSV", ServedRows)) : m \in {"None", "Gzip"}}

Init ==
    /\ storage = "none"
    /\ args = NoArgs
    /\ create_error = "unattempted"
    /\ create_log = <<>>
    /\ uri = NoURI
    /\ format_name = ""
    /\ compression_method = ""
    /\ columns = {}
    /\ constraints = ""
    /\ database_name = ""
    /\ table_name = ""
    /\ renaming = NoRename
    /\ identities = {}
    /\ resource \in InitialResources
    /\ committed = [done |-> FALSE, rows |-> <<>>]
    /\ stream = NoStream

Next ==
    \/ registerStorageURL
    \/ rename_table_name
    \/ rename_database_name
    \/ read
    \/ readImpl
    \/ write
    \/ writeBlock
    \/ writeSuffix
    \/ destroy

Spec == Init /\ [][Next]_vars

----------------------------------------------------------------------------
(* Properties *)

Count(log, e) == Cardinality({i \in 1..Len(log) : log[i] = e})

Attempted == create_error # "unattempted"

InFlight == stream.pc \in {"open", "done", "failed", "finished"}

\* C1: while a read or write is in flight, the pair (database_name,
\* table_name) is always a pair that was installed whole: the pair before a
\* rename or the pair after it, never table_name of one and database_name
\* of the other.
C1_RenameAtomic ==
    InFlight => <<database_name, table_name>> \in identities

\* C2: the calls of writeSuffix are, in this order, the codec's suffix, the
\* codec's flush and the finalization of the byte stream; a call that throws
\* is the last one made, and the upload is complete only after all three.
C2_WriteSuffixOrder ==
    stream.kind = "out" =>
        LET calls == SelectSeq(stream.log,
                        LAMBDA e : e \in {"writer.writeSuffix", "writer.flush",
                            "write_buf.finalize", "writer.writeSuffix:throw",
                            "writer.flush:throw", "write_buf.finalize:throw"})
        IN  /\ calls \in
                {<<>>,
                 <<"writer.writeSuffix:throw">>,
                 <<"writer.writeSuffix", "writer.flush:throw">>,
                 <<"writer.writeSuffix", "writer.flush",
                   "write_buf.finalize:throw">>,
                 <<"writer.writeSuffix", "writer.flush",
                   "write_buf.finalize">>}
            /\ (stream.pc = "finished" \/ stream.exit = "finished") <=>
                    calls = <<"writer.writeSuffix", "writer.flush",
                              "write_buf.finalize">>

C2_Witness ==
    /\ stream.kind = "out"
    /\ stream.pc = "finished"
    /\ Len(stream.out) > 0
    /\ stream.log = <<"open_buf", "getOutput", "writer.writeSuffix",
                      "writer.flush", "write_buf.finalize">>

\* C3: a creation whose address names a host that is not permitted fails
\* with UNACCEPTABLE_URL, leaves no table and has opened no connection; a
\* stream is only ever opened on a table whose address passed checkURL.
C3_HostCheckedFirst ==
    /\ ( /\ Attempted
         /\ Len(args.engine_args) \in {2, 3}
         /\ ParseURI(args.engine_args[1]).host \notin AllowedHosts )
       => /\ create_error = "UNACCEPTABLE_URL"
          /\ storage = "none"
          /\ stream = NoStream
          /\ \A i \in 1..Len(create_log) :
                create_log[i] \notin {"open_buf", "open_buf:throw"}
    /\ stream.kind # "none"
       => /\ storage = "created"
          /\ uri.host \in AllowedHosts
          /\ Count(create_log, "checkURL") = 1

C3_Witness ==
    /\ create_error = "UNACCEPTABLE_URL"
    /\ ParseURI(args.engine_args[1]).host = <<"x">>
    /\ create_log[Len(create_log)] = "checkURL"

\* C4: a creation fails with NUMBER_OF_ARGUMENTS_DOESNT_MATCH exactly when
\* the number of engine arguments is neither 2 nor 3, and then nothing was
\* evaluated and checkURL was not called; with 2 arguments the compression
\* method is "auto", with 3 it is the third argument.
C4_Arity ==
    Attempted =>
        /\ create_error = "NUMBER_OF_ARGUMENTS_DOESNT_MATCH"
            <=> Len(args.engine_args) \notin {2, 3}
        /\ create_error = "NUMBER_OF_ARGUMENTS_DOESNT_MATCH"
            => create_log = <<>> /\ storage = "none"
        /\ create_error # "NUMBER_OF_ARGUMENTS_DOESNT_MATCH"
            => /\ create_log[1] = "evaluate0"
               /\ Count(create_log, "evaluate2")
                    = (IF Len(args.engine_args) = 3 THEN 1 ELSE 0)
        /\ storage = "created"
            => compression_method =
                (IF Len(args.engine_args) = 2 THEN "auto"
                 ELSE args.engine_args[3])

C4_Witness ==
    /\ create_error = "NUMBER_OF_ARGUMENTS_DOESNT_MATCH"
    /\ Len(args.engine_args) >= 4

\* C5: the compression of every stream, of a read or of a write, is the one
\* chooseCompressionMethod resolves from the path of the table's address and
\* the table's compression method.
C5_CompressionFromPath ==
    (stream.kind # "none" /\ stream.log # <<>>)
        => stream.compression
            = chooseCompressionMethod(uri.path, compression_method)

C6_Rows == Decoded.rows

\* C6: a read stream has the default-filling wrapper exactly when the table
\* declares a default; with it, a requested column the codec's row lacks is
\* returned with its default and a column the row has is returned as it is;
\* without declared defaults the rows returned are the codec's rows.
C6_DefaultsFilled ==
    (stream.kind = "in" /\ "getInput" \in {stream.log[i] : i \in 1..Len(stream.log)})
    => /\ stream.wrapped <=> columns # {}
       /\ Len(stream.out) <= Len(C6_Rows)
       /\ \A i \in 1..Len(stream.out) :
            \A c \in AllColumns :
                IF c \in stream.column_names /\ c \in DOMAIN C6_Rows[i]
                THEN c \in DOMAIN stream.out[i]
                        /\ stream.out[i][c] = C6_Rows[i][c]
                ELSE IF c \in stream.column_names
                        /\ \E p \in columns : p[1] = c
                THEN c \in DOMAIN stream.out[i]
                        /\ <<c, stream.out[i][c]>> \in columns
                ELSE c \notin DOMAIN stream.out[i]

C6_Witness ==
    /\ stream.kind = "in"
    /\ stream.wrapped
    /\ stream.column_names = AllColumns
    /\ Len(stream.out) = 2
    /\ "C1" \notin DOMAIN C6_Rows[1]
    /\ stream.out[1]["C1"] = 0
    /\ stream.out[2]["C1"] = 7

C7_Ended ==
    stream.pc \in {"done", "failed"} \/ stream.exit \in {"done", "failed"}

\* C7: a read of all columns that has come to its end after a finished
\* write has returned exactly the rows of that write, in their order.
C7_RoundTrip ==
    ( /\ committed.done
      /\ stream.kind = "in"
      /\ stream.column_names = AllColumns
      /\ C7_Ended )
    => stream.out = committed.rows

\* C8: a stream's buffer is opened at most once and closed at most once,
\* is not closed while the stream is in use, is closed once the stream is
\* gone on whatever path, and the codec that refers to it is destroyed
\* before it is closed.
C8_ReleasedOnce ==
    stream.kind # "none" =>
        LET log == stream.log
            opens == Count(log, "open_buf")
            closes == Count(log, "close_buf")
            codecs == Count(log, "getInput") + Count(log, "getOutput")
        IN  /\ opens <= 1
            /\ closes <= opens
            /\ InFlight => opens = 1 /\ closes = 0
            /\ stream.pc = "destroyed" => closes = opens
            /\ \A i \in 1..Len(log) :
                (log[i] = "close_buf" /\ codecs > 0)
                    => \E j \in 1..(i - 1) :
                        log[j] \in {"destroy_reader", "destroy_writer"}

C8_Witness ==
    /\ stream.kind = "in"
    /\ stream.exit = "abandoned"
    /\ stream.pos = 1
    /\ Len(C6_Rows) = 2
    /\ stream.log = <<"open_buf", "getInput", "destroy_reader", "close_buf">>

\* C9: once the table is created, its address, format name, compression
\* method, columns and constraints are those of its creation, whatever
\* reads, writes and renames followed; the address a read requests is the
\* stored address with that read's parameters only.
C9_Frame ==
    storage = "created" =>
        /\ uri = ParseURI(args.engine_args[1])
        /\ format_name = args.engine_args[2]
        /\ compression_method =
            (IF Len(args.engine_args) = 3 THEN args.engine_args[3] ELSE "auto")
        /\ columns = args.columns
        /\ constraints = args.constraints
        /\ stream.kind = "in" =>
            \E params \in ParamChoices :
                stream.request_uri =
                    addQueryParameters(ParseURI(args.engine_args[1]), params)

C9_Witness ==
    /\ storage = "created"
    /\ committed.done
    /\ <<database_name, table_name>> = <<"db2", "t2">>
    /\ stream.kind = "in"
    /\ stream.request_uri # uri

\* C10: a creation with a format name that is not registered succeeds when
\* the arity and the host are fine; every read or write on that table that
\* opened its buffer failed on the format, closed the buffer once, and left
\* the table as it was created.
C10_LazyFormat ==
    ( /\ Attempted
      /\ Len(args.engine_args) \in {2, 3}
      /\ ParseURI(args.engine_args[1]).host \in AllowedHosts
      /\ args.engine_args[2] \notin RegisteredFormats )
    => /\ create_error = "none"
       /\ storage = "created"
       /\ format_name = args.engine_args[2]
       /\ uri = ParseURI(args.engine_args[1])
       /\ Count(stream.log, "open_buf") = 1
            => /\ stream.err = "UNKNOWN_FORMAT"
               /\ stream.pc = "destroyed"
               /\ Count(stream.log, "close_buf") = 1
               /\ stream.out = <<>>

C10_Witness ==
    /\ storage = "created"
    /\ format_name = "Bogus"
    /\ stream.kind = "in"
    /\ stream.err = "UNKNOWN_FORMAT"
    /\ stream.log = <<"open_buf", "getInput:throw", "close_buf">>

====
